---------------------------- MODULE Spec2Model ----------------------------
(***************************************************************************)
(* StatVerse-3D: the statistics core (Distribution), the two visualizers   *)
(* and the control panel (UIController), as state machines.                *)
(*                                                                         *)
(* Number model.  A JavaScript number is a record [nan, v]: either NaN or  *)
(* a fixed-point decimal v / SCALE.  Addition and subtraction are exact;   *)
(* multiplication, division and square root round to the nearest multiple  *)
(* of 1 / SCALE, as a scaled-down picture of IEEE rounding.  0 / 0 is NaN  *)
(* and every comparison with NaN is false, as in the language.             *)
(***************************************************************************)
EXTENDS Integers, Sequences, FiniteSets, TLC

VARIABLES
    call,      \* the static Distribution function under call, with its arguments
    local,     \* the locals of that call while it runs (loop variables, pc)
    ret,       \* what the call returned
    config,    \* UIController.config
    display,   \* the text of #stats-content, by its fields
    ci,        \* the fields of ConfidenceIntervalVisualizer
    pe,        \* the fields of ParameterEstimationVisualizer
    timers,    \* the setTimeout callbacks not yet run, in the order they were set
    frames,    \* the requestAnimationFrame callbacks of animateSampling not yet run
    run        \* history: the last operation of the panel and what followed it

vars == <<call, local, ret, config, display, ci, pe, timers, frames, run>>

-----------------------------------------------------------------------------
(* Bounds of the model.                                                    *)

MaxSampleSize == 2     \* largest sample size drawn
MaxPoints == 3         \* largest point count of a density curve
MaxSims == 2           \* largest number of simulations asked for

-----------------------------------------------------------------------------
(* Numbers.                                                                *)

SCALE == 10 * 10 * 10

Num(i) == [nan |-> FALSE, v |-> i]
NaN == [nan |-> TRUE, v |-> 0]
FromInt(n) == Num(n * SCALE)

\* p / q rounded to the nearest integer, halves upwards; q # 0
RoundDiv(p, q) ==
    IF q > 0 THEN (2 * p + q) \div (2 * q)
             ELSE (2 * (0 - p) + (0 - q)) \div (2 * (0 - q))

RECURSIVE ISqrtSearch(_, _, _)
\* the largest r in lo..hi with r * r <= x, given lo * lo <= x
ISqrtSearch(x, lo, hi) ==
    IF lo >= hi THEN lo
    ELSE LET mid == (lo + hi + 1) \div 2
         IN  IF mid * mid <= x THEN ISqrtSearch(x, mid, hi)
                               ELSE ISqrtSearch(x, lo, mid - 1)

ISqrt(x) == ISqrtSearch(x, 0, IF x < 40000 THEN x ELSE 40000)

Add(a, b) == IF a.nan \/ b.nan THEN NaN ELSE Num(a.v + b.v)
Sub(a, b) == IF a.nan \/ b.nan THEN NaN ELSE Num(a.v - b.v)
Mul(a, b) == IF a.nan \/ b.nan THEN NaN ELSE Num(RoundDiv(a.v * b.v, SCALE))

\* a / b; a non-zero number over zero (an infinity) is outside the model
Div(a, b) ==
    CASE a.nan \/ b.nan -> NaN
      [] ~(a.nan \/ b.nan) /\ b.v = 0 /\ a.v = 0 -> NaN
      [] ~(a.nan \/ b.nan) /\ b.v # 0 -> Num(RoundDiv(a.v * SCALE, b.v))

\* Math.sqrt
Sqrt(a) ==
    IF a.nan \/ a.v < 0 THEN NaN
    ELSE LET x == a.v * SCALE
             r == ISqrt(x)
         IN  Num(IF x - r * r > r THEN r + 1 ELSE r)

Le(a, b) == ~a.nan /\ ~b.nan /\ a.v <= b.v
Ge(a, b) == ~a.nan /\ ~b.nan /\ a.v >= b.v

\* the value of an expression, computed once
TheOne(S) == CHOOSE x \in S : TRUE

\* how many terms are added before the partial sum is handed on
SumBlock == 16

RECURSIVE SumSpan(_, _, _, _)
\* acc + terms[i] + ... + terms[j], added from left to right
SumSpan(acc, terms, i, j) ==
    IF i > j THEN acc
    ELSE TheOne({SumSpan(sum, terms, i + 1, j) : sum \in {Add(acc, terms[i])}})

RECURSIVE SumFrom(_, _, _)
\* data.reduce((sum, val) => sum + f(val), acc): f is given as the mapped
\* sequence; the terms are added from left to right, SumBlock of them at a time
SumFrom(acc, terms, i) ==
    IF i > Len(terms) THEN acc
    ELSE LET j == IF i + SumBlock - 1 < Len(terms) THEN i + SumBlock - 1 ELSE Len(terms)
         IN  TheOne({SumFrom(sum, terms, j + 1) : sum \in {SumSpan(acc, terms, i, j)}})


\* an optional argument: omitted, or given with value x
Undefined == [given |-> FALSE, x |-> 0]
Given(x) == [given |-> TRUE, x |-> x]

-----------------------------------------------------------------------------
(* Distribution.                                                           *)

\* Math.random yields a value of Uniform: 0, 0.125 or 0.5
Uniform == {0, 125, 500}

\* Math.sqrt(-2.0 * Math.log(u)) on the non-zero values of Uniform
SqrtNeg2Log(u) ==
    CASE u = 125 -> Num(2039)
      [] u = 500 -> Num(1177)

\* Math.cos(2.0 * Math.PI * v) on the non-zero values of Uniform
Cos2Pi(v) ==
    CASE v = 125 -> Num(707)
      [] v = 500 -> Num(0 - 1000)

\* mutant: the value the source yields is taken as it comes
DrawFirst(stream) ==
    IF stream = <<>> THEN [ok |-> FALSE, val |-> 0, rest |-> <<>>]
    ELSE [ok |-> TRUE, val |-> Head(stream), rest |-> Tail(stream)]

RECURSIVE DrawNonZero(_)
\* let u = 0; while (u === 0) u = Math.random();  over the values the source
\* yields next; ok is FALSE when the stream ends before a non-zero value
DrawNonZero(stream) ==
    IF stream = <<>> THEN [ok |-> FALSE, val |-> 0, rest |-> <<>>]
    ELSE IF Head(stream) = 0 THEN DrawNonZero(Tail(stream))
    ELSE [ok |-> TRUE, val |-> Head(stream), rest |-> Tail(stream)]

normalRandom(mean, stdDev, stream) ==
    LET du == DrawNonZero(stream)
        dv == DrawNonZero(du.rest)
    IN  IF du.ok /\ dv.ok
        THEN [ok |-> TRUE,
              value |-> Add(mean, Mul(Mul(stdDev, SqrtNeg2Log(du.val)), Cos2Pi(dv.val))),
              rest |-> dv.rest]
        ELSE [ok |-> FALSE, value |-> NaN, rest |-> <<>>]

RECURSIVE SampleLoop(_, _, _, _)
\* for (let i = 0; i < params.size; i++) sample.push(this.normalRandom(...))
SampleLoop(params, i, sample, stream) ==
    IF i < params.size
    THEN LET r == normalRandom(params.mean, params.stdDev, stream)
         IN  IF r.ok THEN SampleLoop(params, i + 1, Append(sample, r.value), r.rest)
                     ELSE [ok |-> FALSE, sample |-> sample, rest |-> <<>>]
    ELSE [ok |-> TRUE, sample |-> sample, rest |-> stream]

\* mutant: one draw, pushed params.size times
generateNormalSampleReused(params, stream) ==
    LET r == normalRandom(params.mean, params.stdDev, stream)
    IN  IF params.size < 1 THEN [ok |-> TRUE, sample |-> <<>>, rest |-> stream]
        ELSE [ok |-> r.ok, sample |-> [i \in 1..params.size |-> r.value], rest |-> r.rest]

generateNormalSample(params, stream) == SampleLoop(params, 0, <<>>, stream)

calculateMean(data) ==
    Div(SumFrom(Num(0), data, 1), FromInt(Len(data)))

\* mutant: the deviations are summed without being squared
calculateStdDevUnsquared(data, mean) ==
    LET m == IF mean.given THEN mean.x ELSE calculateMean(data)
        deviations == [i \in 1..Len(data) |-> Sub(data[i], m)]
        variance == Div(SumFrom(Num(0), deviations, 1), FromInt(Len(data)))
    IN  Sqrt(variance)

calculateStdDev(data, mean) ==
    LET m == IF mean.given THEN mean.x ELSE calculateMean(data)
        squares == [i \in 1..Len(data) |-> Mul(Sub(data[i], m), Sub(data[i], m))]
        variance == Div(SumFrom(Num(0), squares, 1), FromInt(Len(data)))
    IN  Sqrt(variance)

L90 == 900
L95 == 950
L99 == 990
Z90 == 1645
Z95 == 1960
Z99 == 2576
ZFallback == 1960
DefaultLevel == 950

\* mutant: zScores[confidenceLevel] with no fallback, undefined for a level
\* that is no key
zScoreNoFallback(confidenceLevel) ==
    LET level == IF confidenceLevel.given THEN confidenceLevel.x ELSE DefaultLevel
    IN  CASE level = L90 -> Num(Z90)
          [] level = L95 -> Num(Z95)
          [] level = L99 -> Num(Z99)
          [] OTHER -> NaN

\* zScores[confidenceLevel] || 1.96, the level defaulting to 0.95
zScore(confidenceLevel) ==
    LET level == IF confidenceLevel.given THEN confidenceLevel.x ELSE DefaultLevel
    IN  CASE level = L90 -> Num(Z90)
          [] level = L95 -> Num(Z95)
          [] level = L99 -> Num(Z99)
          [] OTHER -> Num(ZFallback)

\* mutant: the upper bound adds z, not the margin of error
calculateConfidenceIntervalUpperZ(mean, stdDev, sampleSize, confidenceLevel) ==
    LET z == zScore(confidenceLevel)
        marginOfError == Mul(z, Div(stdDev, Sqrt(FromInt(sampleSize))))
    IN  [lower |-> Sub(mean, marginOfError), upper |-> Add(mean, z)]

calculateConfidenceInterval(mean, stdDev, sampleSize, confidenceLevel) ==
    LET z == zScore(confidenceLevel)
        marginOfError == Mul(z, Div(stdDev, Sqrt(FromInt(sampleSize))))
    IN  [lower |-> Sub(mean, marginOfError), upper |-> Add(mean, marginOfError)]


CurveRange == 4

\* mutant: the step divides the range, not the span from start to end
CurveLocalsHalfStep(mean, stdDev, points) ==
    LET range == Mul(FromInt(CurveRange), stdDev)
        start == Sub(mean, range)
        end == Add(mean, range)
        step == Div(range, FromInt(points))
    IN  [pc |-> "loop", x |-> start, end |-> end, step |-> step, curve |-> <<>>]

\* the locals of generateDistributionCurve as its loop starts
CurveLocals(mean, stdDev, points) ==
    LET range == Mul(FromInt(CurveRange), stdDev)
        start == Sub(mean, range)
        end == Add(mean, range)
        step == Div(Sub(end, start), FromInt(points))
    IN  [pc |-> "loop", x |-> start, end |-> end, step |-> step, curve |-> <<>>]

\* the loop condition x <= end
CurveContinue(l) == Le(l.x, l.end)

\* the loop body and its increment: curve.push({x, y}); x += step.  The y of a
\* point (normalPDF) is read by no condition and is left out.
CurveBody(l) == [l EXCEPT !.curve = Append(l.curve, l.x), !.x = Add(l.x, l.step)]

-----------------------------------------------------------------------------
(* ConfidenceIntervalVisualizer.                                           *)

\* the fields after construction; group counts the true-mean lines and the
\* interval meshes among the group's children
ciNew ==
    [samples |-> <<>>,
     trueMean |-> Num(0),
     trueStdDev |-> FromInt(1),
     confidenceLevel |-> L95,
     coverageStats |-> [total |-> 0, covered |-> 0],
     group |-> [lines |-> 0, meshes |-> 0]]

\* setTrueParameters: createTrueMeanLine adds a line and removes none
setTrueParameters(c, mean, stdDev) ==
    [c EXCEPT !.trueMean = mean, !.trueStdDev = stdDev, !.group.lines = @ + 1]

setConfidenceLevel(c, level) == [c EXCEPT !.confidenceLevel = level]

clearSimulations(c) ==
    [c EXCEPT !.samples = <<>>,
              !.group = IF c.group.lines > 0
                        THEN [lines |-> 1, meshes |-> 0]
                        ELSE [lines |-> 0, meshes |-> c.group.meshes - Len(c.samples)]]

\* simulateConfidenceIntervals, but for the timers it sets
simulateConfidenceIntervals(c, numSimulations) ==
    [clearSimulations(c) EXCEPT !.coverageStats = [total |-> numSimulations, covered |-> 0]]

\* setTimeout(() => this.addConfidenceInterval(i, sampleSize), i * 50), for
\* i = 0 .. numSimulations - 1; a delay is counted in steps of 50 ms
simulationTimers(numSimulations, sampleSize) ==
    [k \in 1..numSimulations |->
        [index |-> k - 1, sampleSize |-> sampleSize, delay |-> k - 1]]

\* mutant: only the lower bound is compared with the true mean
ContainsLowerOnly(interval, trueMean) == Le(interval.lower, trueMean)

\* ci.lower <= this.trueMean && ci.upper >= this.trueMean
Contains(interval, trueMean) == Le(interval.lower, trueMean) /\ Ge(interval.upper, trueMean)

addConfidenceInterval(c, index, sampleSize, stream) ==
    LET params == [mean |-> c.trueMean, stdDev |-> c.trueStdDev, size |-> sampleSize]
        sample == generateNormalSample(params, stream).sample
        sampleMean == calculateMean(sample)
        sampleStdDev == calculateStdDev(sample, Given(sampleMean))
        interval == calculateConfidenceInterval(
                        sampleMean, sampleStdDev, sampleSize, Given(c.confidenceLevel))
        containsTrue == Contains(interval, c.trueMean)
    IN  [c EXCEPT !.coverageStats.covered = IF containsTrue THEN @ + 1 ELSE @,
                  !.samples = Append(@, [mean |-> sampleMean,
                                         lower |-> interval.lower,
                                         upper |-> interval.upper,
                                         containsTrue |-> containsTrue,
                                         mesh |-> index]),
                  !.group.meshes = @ + 1]

getCoverageStats(c) ==
    [total |-> c.coverageStats.total,
     covered |-> c.coverageStats.covered,
     percentage |-> IF c.coverageStats.total > 0
                    THEN Mul(Div(FromInt(c.coverageStats.covered),
                                 FromInt(c.coverageStats.total)), FromInt(100))
                    ELSE Num(0)]

\* clear(): clearSimulations(), then group.clear()
ciClear(c) == [clearSimulations(c) EXCEPT !.group = [lines |-> 0, meshes |-> 0]]

-----------------------------------------------------------------------------
(* ParameterEstimationVisualizer.                                          *)

NoMarkers == [set |-> FALSE, mean |-> NaN, lower |-> NaN, upper |-> NaN]

peNew ==
    [samples |-> <<>>,
     samplePoints |-> 0,
     estimationMarkers |-> NoMarkers,
     distributionCurve |-> FALSE]

clearSamples(p) == [p EXCEPT !.samples = <<>>, !.samplePoints = 0]

\* the mean marker, the two interval markers and the bar between them
updateEstimationMarkers(p) ==
    LET sampleMean == calculateMean(p.samples)
        sampleStdDev == calculateStdDev(p.samples, Given(sampleMean))
        interval == calculateConfidenceInterval(
                        sampleMean, sampleStdDev, Len(p.samples), Undefined)
    IN  [p EXCEPT !.estimationMarkers =
            [set |-> TRUE, mean |-> sampleMean,
             lower |-> interval.lower, upper |-> interval.upper]]

generateSamples(p, params, stream) ==
    LET cleared == clearSamples(p)
        drawn == [cleared EXCEPT !.samples = generateNormalSample(params, stream).sample,
                                 !.samplePoints = @ + 1]
    IN  updateEstimationMarkers(drawn)

\* distributionCurve is null or a line; the points of the line are not kept
visualizeDistribution(p, mean, stdDev) == [p EXCEPT !.distributionCurve = TRUE]

NoStatistics == [some |-> FALSE, mean |-> NaN, stdDev |-> NaN, lower |-> NaN, upper |-> NaN]

getStatistics(p) ==
    IF Len(p.samples) = 0 THEN NoStatistics
    ELSE LET mean == calculateMean(p.samples)
             stdDev == calculateStdDev(p.samples, Given(mean))
             interval == calculateConfidenceInterval(mean, stdDev, Len(p.samples), Undefined)
         IN  [some |-> TRUE, mean |-> mean, stdDev |-> stdDev,
              lower |-> interval.lower, upper |-> interval.upper]

FramesPerRun == 60

\* Math.ceil(a / b)
CeilDiv(a, b) == (a + b - 1) \div b

\* mutant: the whole sample is drawn in one run of animate()
animationOfOneBatch(params) ==
    [mean |-> params.mean, stdDev |-> params.stdDev,
     targetSamples |-> params.size, currentSamples |-> 0,
     samplesPerFrame |-> params.size]

\* the closure of one animateSampling call: its parameters and counters
animationOf(params) ==
    [mean |-> params.mean, stdDev |-> params.stdDev,
     targetSamples |-> params.size, currentSamples |-> 0,
     samplesPerFrame |-> CeilDiv(params.size, FramesPerRun)]

\* how many values one run of animate() draws
batchOf(a) ==
    IF a.currentSamples < a.targetSamples
    THEN IF a.samplesPerFrame < a.targetSamples - a.currentSamples
         THEN a.samplesPerFrame ELSE a.targetSamples - a.currentSamples
    ELSE 0

\* one run of animate() up to its completion test: the visualizer, the closure
\* and the stream after its batch.  addAnimatedSample only adds spheres to the
\* scene, which nothing reads.
animateBatch(p, a, stream) ==
    LET batch == batchOf(a)
        r == generateNormalSample([mean |-> a.mean, stdDev |-> a.stdDev, size |-> batch], stream)
    IN  [pe |-> [p EXCEPT !.samples = @ \o r.sample],
         closure |-> [a EXCEPT !.currentSamples = @ + batch],
         rest |-> r.rest]

peClear(p) ==
    [clearSamples(p) EXCEPT !.estimationMarkers = NoMarkers, !.distributionCurve = FALSE]

-----------------------------------------------------------------------------
(* UIController.                                                           *)

Pow10(d) == CASE d = 0 -> 1 [] d = 1 -> 10 [] d = 3 -> 1000 [] d = 4 -> 10000

Abs(a) == IF a.nan THEN NaN ELSE Num(IF a.v < 0 THEN 0 - a.v ELSE a.v)

\* Number.prototype.toFixed(d): the text is n / 10^d with d decimals, n the
\* nearest integer to a * 10^d, halves away from zero; "NaN" for NaN
toFixed(a, d) ==
    IF a.nan THEN [nan |-> TRUE, digits |-> d, n |-> 0]
    ELSE LET m == (IF a.v < 0 THEN 0 - a.v ELSE a.v) * Pow10(d)
             n == (2 * m + SCALE) \div (2 * SCALE)
         IN  [nan |-> FALSE, digits |-> d, n |-> IF a.v < 0 THEN 0 - n ELSE n]

\* the fields updateStatsDisplay writes into #stats-content
updateStatsDisplay(cfg, p, c) ==
    IF cfg.mode = "parameterEstimation"
    THEN LET stats == getStatistics(p)
         IN  IF stats.some
             THEN [kind |-> "estimation",
                   mean |-> toFixed(stats.mean, 4),
                   stdDev |-> toFixed(stats.stdDev, 4),
                   lower |-> toFixed(stats.lower, 3),
                   upper |-> toFixed(stats.upper, 3),
                   trueMean |-> toFixed(cfg.trueMean, 4),
                   error |-> toFixed(Abs(Sub(stats.mean, cfg.trueMean)), 4)]
             ELSE [kind |-> "noData"]
    ELSE LET coverage == getCoverageStats(c)
             nominal == Mul(Num(cfg.confidenceLevel), FromInt(100))
         IN  [kind |-> "coverage",
              total |-> coverage.total,
              covered |-> coverage.covered,
              percentage |-> toFixed(coverage.percentage, 1),
              nominal |-> toFixed(nominal, 0),
              error |-> toFixed(Abs(Sub(coverage.percentage, nominal)), 1)]

-----------------------------------------------------------------------------
(* The application's state after construction, and what the panel offers.  *)

NoLocal == [pc |-> "none"]
NoRet == [done |-> FALSE, error |-> "none", value |-> <<>>]
NoCall == [fn |-> "none"]

appVars == <<config, display, ci, pe, timers, frames, run>>
coreVars == <<call, local, ret>>

\* the panel's controls, scaled down: the sample size and the number of
\* simulations are at least 1, the standard deviation is positive
SampleSizes == {1, MaxSampleSize}
Levels == {L90, L95}
NumSimulations == 1..MaxSims
Modes == {"parameterEstimation", "confidenceInterval"}

\* what Math.random yields to the visualizers, by the (u, v) of each normal
\* draw: a deviate of 1.442 or of -1.177.  The redraw of a zero is exercised on
\* Distribution itself.
AppDraws == {<<125, 125>>, <<500, 500>>}
Streams(size) ==
    {[i \in 1..(2 * size) |-> f[(i + 1) \div 2][IF i % 2 = 1 THEN 1 ELSE 2]] :
        f \in [1..size -> AppDraws]}

configNew ==
    [mode |-> "parameterEstimation",
     trueMean |-> Num(0),
     trueStdDev |-> FromInt(1),
     sampleSize |-> MaxSampleSize,
     confidenceLevel |-> L95,
     numSimulations |-> MaxSims,
     showDistribution |-> TRUE]

\* op: the panel's last operation was "simulate" (generate in confidence-interval
\* mode), "sample" (generate or animate in parameter-estimation mode), "clear"
\* (clearVisualization) or another one; asked: the number of simulations, or
\* the sample size, it asked for; fresh: no timer was pending when it simulated
NoRun == [op |-> "other", asked |-> 0, fresh |-> FALSE]
Cleared == [op |-> "clear", asked |-> 0, fresh |-> FALSE]
Sampled(size) == [op |-> "sample", asked |-> size, fresh |-> FALSE]

AppInit ==
    /\ config = configNew
    /\ display = [kind |-> "empty"]
    /\ ci = ciNew
    /\ pe = peNew
    /\ timers = <<>>
    /\ frames = <<>>
    /\ run = NoRun

MaxTimers == MaxSims
MaxFrames == 1

\* A control of the panel is moved: dat.GUI writes the value into config and
\* calls no handler.  The controls of the true mean and of the true standard
\* deviation are left where they stand.
SetSampleSize ==
    /\ \E n \in SampleSizes \ {config.sampleSize} :
          config' = [config EXCEPT !.sampleSize = n]
    /\ UNCHANGED <<display, ci, pe, timers, frames, run, coreVars>>

SetConfidenceLevel ==
    /\ \E l \in Levels \ {config.confidenceLevel} :
          config' = [config EXCEPT !.confidenceLevel = l]
    /\ UNCHANGED <<display, ci, pe, timers, frames, run, coreVars>>

SetNumSimulations ==
    /\ \E k \in NumSimulations \ {config.numSimulations} :
          config' = [config EXCEPT !.numSimulations = k]
    /\ UNCHANGED <<display, ci, pe, timers, frames, run, coreVars>>

SetShowDistribution ==
    /\ config' = [config EXCEPT !.showDistribution = ~@]
    /\ UNCHANGED <<display, ci, pe, timers, frames, run, coreVars>>

\* clearVisualization
clearVisualization(cfg, p, c) ==
    LET p1 == peClear(p)
        c1 == ciClear(c)
    IN  [pe |-> p1, ci |-> c1, display |-> updateStatsDisplay(cfg, p1, c1)]

\* the mode control is changed: handleModeChange
HandleModeChange ==
    /\ \E m \in Modes \ {config.mode} :
          LET cfg == [config EXCEPT !.mode = m]
              cleared == clearVisualization(cfg, pe, ci)
          IN  /\ config' = cfg
              /\ pe' = cleared.pe
              /\ ci' = cleared.ci
              /\ display' = updateStatsDisplay(cfg, cleared.pe, cleared.ci)
    /\ run' = Cleared
    /\ UNCHANGED <<timers, frames, coreVars>>

ClearVisualization ==
    /\ LET cleared == clearVisualization(config, pe, ci)
       IN  /\ pe' = cleared.pe
           /\ ci' = cleared.ci
           /\ display' = cleared.display
    /\ run' = Cleared
    /\ UNCHANGED <<config, timers, frames, coreVars>>

\* generateVisualization in parameter-estimation mode
GenerateSamples ==
    /\ config.mode = "parameterEstimation"
    /\ \E stream \in Streams(config.sampleSize) :
          LET params == [mean |-> config.trueMean, stdDev |-> config.trueStdDev,
                         size |-> config.sampleSize]
              p1 == generateSamples(pe, params, stream)
              p2 == IF config.showDistribution
                    THEN visualizeDistribution(p1, config.trueMean, config.trueStdDev)
                    ELSE p1
          IN  /\ pe' = p2
              /\ display' = updateStatsDisplay(config, p2, ci)
    /\ run' = Sampled(config.sampleSize)
    /\ UNCHANGED <<config, ci, timers, frames, coreVars>>

\* generateVisualization in confidence-interval mode
GenerateIntervals ==
    /\ config.mode = "confidenceInterval"
    /\ Len(timers) + config.numSimulations <= MaxTimers
    /\ LET c1 == setTrueParameters(ci, config.trueMean, config.trueStdDev)
           c2 == setConfidenceLevel(c1, config.confidenceLevel)
           c3 == simulateConfidenceIntervals(c2, config.numSimulations)
       IN  /\ ci' = c3
           /\ timers' = timers \o simulationTimers(config.numSimulations, config.sampleSize)
           /\ display' = updateStatsDisplay(config, pe, c3)
    /\ run' = [op |-> "simulate", asked |-> config.numSimulations, fresh |-> timers = <<>>]
    /\ UNCHANGED <<config, pe, frames, coreVars>>

\* the completion of an animation: updateEstimationMarkers(), then the panel's
\* onComplete
completeAnimation(cfg, p, c) ==
    LET p1 == updateEstimationMarkers(p)
        p2 == IF cfg.showDistribution
              THEN visualizeDistribution(p1, cfg.trueMean, cfg.trueStdDev)
              ELSE p1
    IN  [pe |-> p2, display |-> updateStatsDisplay(cfg, p2, c)]

\* one run of animate(): w holds the visualizer, the display, the callbacks
\* requested for the next frame, the values the source yields next and the
\* number of completions (updateEstimationMarkers and onComplete) so far
animate(w, a, cfg, c) ==
    IF a.currentSamples < a.targetSamples
    THEN TheOne({IF b.closure.currentSamples >= b.closure.targetSamples
                 THEN TheOne({[pe |-> done.pe,
                               display |-> done.display,
                               frames |-> Append(w.frames, b.closure),
                               stream |-> b.rest,
                               completions |-> w.completions + 1] :
                                 done \in {completeAnimation(cfg, b.pe, c)}})
                 ELSE [pe |-> b.pe,
                       display |-> w.display,
                       frames |-> Append(w.frames, b.closure),
                       stream |-> b.rest,
                       completions |-> w.completions] :
                     b \in {animateBatch(w.pe, a, w.stream)}})
    ELSE w

\* animateVisualization in parameter-estimation mode: animateSampling runs
\* animate() once before it returns
AnimateSampling ==
    /\ config.mode = "parameterEstimation"
    /\ Len(frames) < MaxFrames
    /\ LET params == [mean |-> config.trueMean, stdDev |-> config.trueStdDev,
                      size |-> config.sampleSize]
           a == animationOf(params)
       IN  \E stream \in Streams(batchOf(a)) :
              \E w \in {animate([pe |-> clearSamples(pe), display |-> display,
                                frames |-> frames, stream |-> stream,
                                completions |-> 0], a, config, ci)} :
                  /\ pe' = w.pe
                  /\ display' = w.display
                  /\ frames' = w.frames
    /\ run' = Sampled(config.sampleSize)
    /\ UNCHANGED <<config, ci, timers, coreVars>>

\* animateVisualization in confidence-interval mode: animateCoverageVisualization
\* only rescales and relights the meshes
AnimateCoverage ==
    /\ config.mode = "confidenceInterval"
    /\ run' = NoRun
    /\ UNCHANGED <<config, display, ci, pe, timers, frames, coreVars>>

RECURSIVE RunCallbacks(_, _, _, _, _)
\* the callbacks of one animation frame, in the order they were requested
RunCallbacks(w, pending, i, cfg, c) ==
    IF i > Len(pending) THEN w
    ELSE TheOne({RunCallbacks(w1, pending, i + 1, cfg, c) :
                    w1 \in {animate(w, pending[i], cfg, c)}})

RECURSIVE DrawsOf(_, _)
DrawsOf(pending, i) ==
    IF i > Len(pending) THEN 0 ELSE batchOf(pending[i]) + DrawsOf(pending, i + 1)

\* the browser delivers an animation frame
AnimationFrame ==
    /\ frames # <<>>
    /\ \E stream \in Streams(DrawsOf(frames, 1)) :
          \E w \in {RunCallbacks([pe |-> pe, display |-> display,
                                 frames |-> <<>>, stream |-> stream,
                                 completions |-> 0],
                                frames, 1, config, ci)} :
              /\ pe' = w.pe
              /\ display' = w.display
              /\ frames' = w.frames
    /\ UNCHANGED <<config, ci, timers, run, coreVars>>

\* the first timer that is due, in the order the timers were set
DueTimer == CHOOSE k \in 1..Len(timers) :
                /\ timers[k].delay = 0
                /\ \A j \in 1..(k - 1) : timers[j].delay # 0

Without(seq, k) == [j \in 1..(Len(seq) - 1) |-> IF j < k THEN seq[j] ELSE seq[j + 1]]

\* a timeout set by simulateConfidenceIntervals runs
TimerFire ==
    /\ \E k \in 1..Len(timers) : timers[k].delay = 0
    /\ LET t == timers[DueTimer]
       IN  \E stream \in Streams(t.sampleSize) :
              ci' = addConfidenceInterval(ci, t.index, t.sampleSize, stream)
    /\ timers' = Without(timers, DueTimer)
    /\ UNCHANGED <<config, display, pe, frames, run, coreVars>>

\* 50 ms pass with no timer due
Tick ==
    /\ timers # <<>>
    /\ \A k \in 1..Len(timers) : timers[k].delay > 0
    /\ timers' = [k \in 1..Len(timers) |-> [timers[k] EXCEPT !.delay = @ - 1]]
    /\ UNCHANGED <<config, display, ci, pe, frames, run, coreVars>>

Init ==
    /\ AppInit
    /\ call = NoCall
    /\ local = NoLocal
    /\ ret = NoRet

Next ==
    \/ SetSampleSize
    \/ SetConfidenceLevel
    \/ SetNumSimulations
    \/ SetShowDistribution
    \/ HandleModeChange
    \/ ClearVisualization
    \/ GenerateSamples
    \/ GenerateIntervals
    \/ AnimateSampling
    \/ AnimateCoverage
    \/ AnimationFrame
    \/ TimerFire
    \/ Tick

Spec == Init /\ [][Next]_vars

\* The panel used for confidence intervals: in parameter-estimation mode the
\* user presses neither generate nor animate.
NextIntervals ==
    \/ SetSampleSize
    \/ SetConfidenceLevel
    \/ SetNumSimulations
    \/ HandleModeChange
    \/ ClearVisualization
    \/ GenerateIntervals
    \/ AnimateCoverage
    \/ TimerFire
    \/ Tick

SpecIntervals == Init /\ [][NextIntervals]_vars

\* The panel used for parameter estimation: in confidence-interval mode the
\* user presses neither generate nor animate.
NextEstimation ==
    \/ SetSampleSize
    \/ SetConfidenceLevel
    \/ SetShowDistribution
    \/ HandleModeChange
    \/ ClearVisualization
    \/ GenerateSamples
    \/ AnimateSampling
    \/ AnimationFrame

SpecEstimation == Init /\ [][NextEstimation]_vars

-----------------------------------------------------------------------------
(* Calls of the static functions of Distribution, on drawn arguments.      *)

Means == {Num(0 - 1000), Num(0), Num(5000)}
StdDevs == {Num(0 - 1000), Num(0), Num(500), Num(2000)}
LevelArgs == {Undefined, Given(L90), Given(L95), Given(L99), Given(800), Given(0)}
SampleSizeArgs == (1..MaxSampleSize) \cup {400}

\* the array and heap of the engine hold a curve of at most this many points
MaxCurveLen == MaxPoints + 3
\* how many values of the uniform source a call may consume
MaxStream == 2 * MaxSampleSize + 1
MaxDataLen == 3
DataValues == {Num(0 - 1000), Num(0), Num(500), Num(2000)}

SeqsUpTo(S, n) == UNION {[1..k -> S] : k \in 0..n}

Returned(v) == [done |-> TRUE, error |-> "none", value |-> v]

CallConfidenceInterval ==
    /\ call.fn = "calculateConfidenceInterval"
    /\ ~ret.done
    /\ ret' = Returned(calculateConfidenceInterval(
                  call.mean, call.stdDev, call.sampleSize, call.confidenceLevel))
    /\ UNCHANGED <<call, local>>

CallGenerateNormalSample ==
    /\ call.fn = "generateNormalSample"
    /\ ~ret.done
    /\ LET r == generateNormalSample(call.params, call.stream)
       IN  /\ r.ok
           /\ ret' = Returned(r.sample)
    /\ UNCHANGED <<call, local>>

\* const sampleMean = Distribution.calculateMean(sample)
CallCalculateMean ==
    /\ call.fn = "estimate"
    /\ local.pc = "none"
    /\ local' = [pc |-> "mean", sampleMean |-> calculateMean(call.data)]
    /\ UNCHANGED <<call, ret>>

\* const sampleStdDev = Distribution.calculateStdDev(sample, sampleMean)
CallCalculateStdDev ==
    /\ call.fn = "estimate"
    /\ local.pc = "mean"
    /\ local' = [local EXCEPT !.pc = "done"]
    /\ ret' = Returned([sampleMean |-> local.sampleMean,
                        sampleStdDev |-> calculateStdDev(call.data, Given(local.sampleMean))])
    /\ UNCHANGED call

\* normalRandom up to its return statement: the two while loops
NormalRandomDraw ==
    /\ call.fn = "normalRandom"
    /\ local.pc = "none"
    /\ \E du \in {DrawNonZero(call.stream)} :
          \E dv \in {DrawNonZero(du.rest)} :
             /\ du.ok
             /\ dv.ok
             /\ local' = [pc |-> "drawn", u |-> du.val, v |-> dv.val, rest |-> dv.rest]
    /\ UNCHANGED <<call, ret>>

\* the return statement of normalRandom
NormalRandomReturn ==
    /\ call.fn = "normalRandom"
    /\ local.pc = "drawn"
    /\ local' = [local EXCEPT !.pc = "done"]
    /\ ret' = Returned(normalRandom(call.mean, call.stdDev, call.stream).value)
    /\ UNCHANGED call

\* what Math.random yields to an animation that runs alone: every normal draw
\* is made of u = v = 0.125
SteadyStream(size) == [i \in 1..(2 * size) |-> 125]

\* animateSampling(params, onComplete) is called with the panel's callback:
\* clearSamples(), then the first run of animate().  local counts the runs of
\* animate(), the samples the last run added, the completions, and the frames
\* delivered after the completion.
AnimateEnter ==
    /\ call.fn = "animateSampling"
    /\ local.pc = "none"
    /\ LET a == animationOf([mean |-> config.trueMean, stdDev |-> config.trueStdDev,
                             size |-> call.size])
       IN  \E w \in {animate([pe |-> clearSamples(pe), display |-> display,
                               frames |-> frames, stream |-> SteadyStream(batchOf(a)),
                               completions |-> 0], a, config, ci)} :
              /\ pe' = w.pe
              /\ display' = w.display
              /\ frames' = w.frames
              /\ local' = [pc |-> "running", runs |-> 1, added |-> Len(w.pe.samples),
                           completions |-> w.completions, idle |-> 0]
    /\ UNCHANGED <<call, ret, config, ci, timers, run>>

\* the browser delivers an animation frame to the animation that runs alone
AnimateFrame ==
    /\ call.fn = "animateSampling"
    /\ local.pc = "running"
    /\ frames # <<>>
    /\ \E w \in {RunCallbacks([pe |-> pe, display |-> display, frames |-> <<>>,
                                 stream |-> SteadyStream(DrawsOf(frames, 1)),
                                 completions |-> 0],
                                frames, 1, config, ci)} :
          /\ pe' = w.pe
          /\ display' = w.display
          /\ frames' = w.frames
          /\ local' = [pc |-> IF w.frames = <<>> THEN "stopped" ELSE "running",
                       runs |-> local.runs + 1,
                       added |-> Len(w.pe.samples) - Len(pe.samples),
                       completions |-> local.completions + w.completions,
                       idle |-> IF local.completions > 0 THEN local.idle + 1
                                ELSE local.idle]
    /\ UNCHANGED <<call, ret, config, ci, timers, run>>

CurveEnter ==
    /\ call.fn = "generateDistributionCurve"
    /\ local.pc = "none"
    /\ local' = CurveLocals(call.mean, call.stdDev, call.points)
    /\ UNCHANGED <<call, ret>>

CurveIterate ==
    /\ local.pc = "loop"
    /\ CurveContinue(local)
    /\ Len(local.curve) < MaxCurveLen
    /\ local' = CurveBody(local)
    /\ UNCHANGED <<call, ret>>

\* the loop still runs when the curve has filled the engine's array
CurveExhaust ==
    /\ local.pc = "loop"
    /\ CurveContinue(local)
    /\ Len(local.curve) >= MaxCurveLen
    /\ local' = [local EXCEPT !.pc = "exhausted"]
    /\ UNCHANGED <<call, ret>>

CurveReturn ==
    /\ local.pc = "loop"
    /\ ~CurveContinue(local)
    /\ local' = [local EXCEPT !.pc = "done"]
    /\ ret' = Returned(local.curve)
    /\ UNCHANGED call


\* calculateConfidenceInterval on drawn arguments
InitConfidenceInterval ==
    /\ AppInit
    /\ call \in {[fn |-> "calculateConfidenceInterval", mean |-> m, stdDev |-> sd,
                  sampleSize |-> n, confidenceLevel |-> l] :
                    m \in Means, sd \in StdDevs,
                    n \in SampleSizeArgs, l \in LevelArgs}
    /\ local = NoLocal
    /\ ret = NoRet

NextConfidenceInterval == CallConfidenceInterval /\ UNCHANGED appVars

SpecConfidenceInterval == InitConfidenceInterval /\ [][NextConfidenceInterval]_vars

\* generateNormalSample on drawn parameters and a drawn run of the uniform source
InitSample ==
    /\ AppInit
    /\ call \in {[fn |-> "generateNormalSample",
                  params |-> [mean |-> m, stdDev |-> sd, size |-> n],
                  stream |-> st] :
                    m \in {Num(0), Num(5000)}, sd \in {Num(0 - 1000), Num(0), Num(2000)},
                    n \in 0..MaxSampleSize, st \in SeqsUpTo(Uniform, MaxStream)}
    /\ local = NoLocal
    /\ ret = NoRet

NextSample == CallGenerateNormalSample /\ UNCHANGED appVars

SpecSample == InitSample /\ [][NextSample]_vars

\* normalRandom on drawn parameters and a drawn run of the uniform source
InitNormalRandom ==
    /\ AppInit
    /\ call \in {[fn |-> "normalRandom", mean |-> m, stdDev |-> sd, stream |-> st] :
                    m \in {Num(0), Num(5000)}, sd \in {Num(500), Num(2000)},
                    st \in SeqsUpTo(Uniform, MaxStream)}
    /\ local = NoLocal
    /\ ret = NoRet

NextNormalRandom ==
    \/ NormalRandomDraw /\ UNCHANGED appVars
    \/ NormalRandomReturn /\ UNCHANGED appVars

SpecNormalRandom == InitNormalRandom /\ [][NextNormalRandom]_vars

\* animateSampling on a drawn size, with nothing else acting on the visualizer
AnimationSizes ==
    {1, 2, FramesPerRun - 1, FramesPerRun, FramesPerRun + 1,
     2 * FramesPerRun, 2 * FramesPerRun + 1}

InitAnimation ==
    /\ AppInit
    /\ call \in {[fn |-> "animateSampling", size |-> n] : n \in AnimationSizes}
    /\ local = NoLocal
    /\ ret = NoRet

NextAnimation ==
    \/ AnimateEnter
    \/ AnimateFrame

SpecAnimation == InitAnimation /\ [][NextAnimation]_vars

\* calculateMean, then calculateStdDev around that mean, on a drawn sample
InitEstimate ==
    /\ AppInit
    /\ call \in {[fn |-> "estimate", data |-> d] : d \in SeqsUpTo(DataValues, MaxDataLen)}
    /\ local = NoLocal
    /\ ret = NoRet

NextEstimate ==
    \/ CallCalculateMean /\ UNCHANGED appVars
    \/ CallCalculateStdDev /\ UNCHANGED appVars

SpecEstimate == InitEstimate /\ [][NextEstimate]_vars

\* generateDistributionCurve on drawn arguments, one loop iteration at a time
InitCurve ==
    /\ AppInit
    /\ call \in {[fn |-> "generateDistributionCurve", mean |-> m, stdDev |-> sd,
                  points |-> n] :
                    m \in Means, sd \in StdDevs \cup {Num(100)}, n \in 1..MaxPoints}
    /\ local = NoLocal
    /\ ret = NoRet

NextCurve ==
    \/ CurveEnter /\ UNCHANGED appVars
    \/ CurveIterate /\ UNCHANGED appVars
    \/ CurveExhaust /\ UNCHANGED appVars
    \/ CurveReturn /\ UNCHANGED appVars

SpecCurve == InitCurve /\ [][NextCurve]_vars

\* a call, once made, runs on: nothing preempts the loop
SpecCurveFair == SpecCurve /\ WF_vars(NextCurve)

-----------------------------------------------------------------------------
(* The claims about Distribution.                                          *)

\* C1: for sampleStdDev >= 0, sampleSize >= 1 and any confidence level,
\* calculateConfidenceInterval returns lower <= sampleMean <= upper, and
\* upper - sampleMean = sampleMean - lower.
IntervalAroundMean ==
    (ret.done /\ call.stdDev.v >= 0 /\ call.sampleSize >= 1)
        => /\ Le(ret.value.lower, call.mean)
           /\ Le(call.mean, ret.value.upper)
           /\ ret.value.upper.v - call.mean.v = call.mean.v - ret.value.lower.v

\* a proper interval was returned for a level that is no key of zScores
IntervalAroundMeanReached ==
    /\ ret.done
    /\ call.stdDev.v > 0
    /\ call.confidenceLevel = Given(800)
    /\ ret.value.lower.v < call.mean.v
    /\ call.mean.v < ret.value.upper.v

\* C2: calculateConfidenceInterval returns mean -+ z * (stdDev / sqrt(n)), z
\* being 1.645 for 0.90, 1.96 for 0.95, 2.576 for 0.99 and 1.96 for any other
\* or an omitted level; no level makes it fail.  stdDev = 2, n = 400 at 0.95
\* gives a half-width of 0.196.
MarginByLevel ==
    ret.done =>
        LET l == call.confidenceLevel
            z == CASE l.given /\ l.x = 900 -> 1645
                   [] l.given /\ l.x = 950 -> 1960
                   [] l.given /\ l.x = 990 -> 2576
                   [] OTHER -> 1960
            margin == Mul(Num(z), Div(call.stdDev, Sqrt(FromInt(call.sampleSize))))
        IN  /\ ret.error = "none"
            /\ ~margin.nan
            /\ ret.value.lower = Sub(call.mean, margin)
            /\ ret.value.upper = Add(call.mean, margin)
            /\ (call.stdDev = Num(2000) /\ call.sampleSize = 400 /\ l = Given(950))
                   => ret.value.upper.v - call.mean.v = 196

\* the worked case: stdDev = 2, n = 400, level 0.95, half-width 0.196
MarginByLevelReached ==
    /\ ret.done
    /\ call.stdDev = Num(2000)
    /\ call.sampleSize = 400
    /\ call.confidenceLevel = Given(950)
    /\ call.mean.v - ret.value.lower.v = 196

IsNonZero(u) == u # 0

\* C3: for size = n >= 1 and stdDev > 0, generateNormalSample returns exactly n
\* values, the i-th made from the i-th pair of non-zero values the uniform
\* source yields: every position has a call of the sampler, and draws, of its own.
SampleOfOwnDraws ==
    (ret.done /\ call.params.size >= 1 /\ call.params.stdDev.v > 0)
        => LET nz == SelectSeq(call.stream, IsNonZero)
           IN  /\ Len(ret.value) = call.params.size
               /\ Len(nz) >= 2 * call.params.size
               /\ \A i \in 1..call.params.size :
                     ret.value[i] =
                         Add(call.params.mean,
                             Mul(Mul(call.params.stdDev, SqrtNeg2Log(nz[2 * i - 1])),
                                 Cos2Pi(nz[2 * i])))

\* two values were drawn, differing, from a stream with a zero in it
SampleOfOwnDrawsReached ==
    /\ ret.done
    /\ call.params.size = 2
    /\ call.params.stdDev.v > 0
    /\ \E k \in 1..Len(call.stream) : call.stream[k] = 0
    /\ ret.value[1] # ret.value[2]

CurveShape ==
    (local.pc = "done" /\ call.stdDev.v > 0)
        => LET curve == ret.value
               spacing == RoundDiv(8 * call.stdDev.v, call.points)
           IN  /\ Len(curve) \in {call.points, call.points + 1}
               /\ curve[1] = Num(call.mean.v - 4 * call.stdDev.v)
               /\ \A i \in 1..(Len(curve) - 1) :
                     /\ curve[i + 1].v - curve[i].v = spacing
                     /\ curve[i + 1].v > curve[i].v
               /\ \A i \in 1..Len(curve) : curve[i].v <= call.mean.v + 4 * call.stdDev.v

\* a curve of three points was returned whose rounded step fell short of the end
CurveShapeReached ==
    /\ local.pc = "done"
    /\ call.stdDev.v > 0
    /\ call.points = 3
    /\ Len(ret.value) = 3

\* C6: generateDistributionCurve terminates and returns a finite sequence, for
\* every mean, every stdDev (positive, zero or negative) and every pointCount >= 1.
CurveReturns == <>(ret.done)

\* C7: generateNormalSample fails with InvalidParameter, returning no sample,
\* whenever size < 1 or stdDev <= 0.
SampleRejectsInvalid ==
    (ret.done /\ (call.params.size < 1 \/ call.params.stdDev.v <= 0))
        => ret.error = "InvalidParameter"

\* C8: calculateMean and calculateStdDev fail with EmptyInput on a sample of
\* length 0, instead of returning a value.
EstimateRejectsEmpty ==
    (local.pc \in {"mean", "done"} /\ Len(call.data) = 0)
        => ret.error = "EmptyInput"

-----------------------------------------------------------------------------
(* The claims about the confidence-interval visualizer and the panel.      *)

\* the intervals kept whose [lower, upper] contains the visualizer's true mean
Covering(c) ==
    {i \in 1..Len(c.samples) :
        /\ ~c.samples[i].lower.nan
        /\ ~c.samples[i].upper.nan
        /\ c.samples[i].lower.v <= c.trueMean.v
        /\ c.trueMean.v <= c.samples[i].upper.v}

\* all the simulations of the last generate have run, and only they
SimulationsRan == run.op = "simulate" /\ run.fresh /\ timers = <<>>

\* C9: after simulateConfidenceIntervals(n, sampleSize), once its n simulations
\* have run and nothing else has, getCoverageStats reports total = n =
\* samples.length, covered = the number of kept intervals that contain the true
\* mean, and percentage = 100 * covered / total, to the rounding of the
\* division; the percentage is 0 whenever total is 0.
CoverageAfterSimulations ==
    LET stats == getCoverageStats(ci)
    IN  /\ stats.total = 0 => stats.percentage = Num(0)
        /\ SimulationsRan
              => /\ stats.total = run.asked
                 /\ stats.total = Len(ci.samples)
                 /\ stats.covered = Cardinality(Covering(ci))
                 /\ stats.total > 0 =>
                       /\ ~stats.percentage.nan
                       /\ stats.percentage.v - RoundDiv(100 * SCALE * stats.covered, stats.total) <= 50
                       /\ RoundDiv(100 * SCALE * stats.covered, stats.total) - stats.percentage.v <= 50

\* two simulations ran, one interval contains the true mean and one does not
CoverageAfterSimulationsReached ==
    /\ SimulationsRan
    /\ Len(ci.samples) = 2
    /\ ci.coverageStats.covered = 1
    /\ getCoverageStats(ci).percentage = FromInt(50)

\* C10: after generate in confidence-interval mode, once all the scheduled
\* simulations have run and with no further user action, the stats display
\* shows the covered count and the coverage percentage getCoverageStats returns.
DisplayShowsCoverage ==
    (run.op = "simulate" /\ timers = <<>>)
        => /\ display.kind = "coverage"
           /\ display.covered = getCoverageStats(ci).covered
           /\ display.percentage = toFixed(getCoverageStats(ci).percentage, 1)

\* the interval of the samples kept, at the level the panel has selected
SelectedInterval(p, cfg) ==
    LET mean == calculateMean(p.samples)
        stdDev == calculateStdDev(p.samples, Given(mean))
    IN  calculateConfidenceInterval(mean, stdDev, Len(p.samples), Given(cfg.confidenceLevel))

\* C11: every confidence interval the application computes is computed at the
\* level selected in the panel: whenever the estimation markers are set anew, or
\* the display is written in parameter-estimation mode with statistics, their
\* bounds are those of the interval at config.confidenceLevel.
SelectedLevelSupplied ==
    [][/\ (pe'.estimationMarkers # pe.estimationMarkers /\ pe'.estimationMarkers.set)
            => /\ pe'.estimationMarkers.lower = SelectedInterval(pe', config').lower
               /\ pe'.estimationMarkers.upper = SelectedInterval(pe', config').upper
       /\ (display' # display /\ display'.kind = "estimation")
            => /\ display'.lower = toFixed(SelectedInterval(pe', config').lower, 3)
               /\ display'.upper = toFixed(SelectedInterval(pe', config').upper, 3)]_vars

\* the places of the non-zero values in a run of the uniform source
NonZeroAt(stream) == {k \in 1..Len(stream) : stream[k] # 0}

\* C12: in normalRandom, whatever the uniform source yields, zeros included,
\* the u and v of the Box-Muller formula are non-zero: u is the first non-zero
\* value yielded and v the second, every zero before them is discarded, the
\* call takes nothing from the source beyond v, and it returns
\* mean + stdDev * sqrt(-2 ln u) * cos(2 pi v).
NonZeroDraws ==
    (call.fn = "normalRandom" /\ local.pc \in {"drawn", "done"})
        => /\ local.u # 0
           /\ local.v # 0
           /\ Cardinality(NonZeroAt(call.stream)) >= 2
           /\ LET nz == SelectSeq(call.stream, IsNonZero)
                  last == CHOOSE k \in NonZeroAt(call.stream) :
                              Cardinality({j \in NonZeroAt(call.stream) : j < k}) = 1
              IN  /\ local.u = nz[1]
                  /\ local.v = nz[2]
                  /\ local.rest = SubSeq(call.stream, last + 1, Len(call.stream))
                  /\ ret.done =>
                        ret.value = Add(call.mean,
                                        Mul(Mul(call.stdDev, SqrtNeg2Log(local.u)),
                                            Cos2Pi(local.v)))

\* the call returned though the source yielded a zero before u and one before v
NonZeroDrawsReached ==
    /\ call.fn = "normalRandom"
    /\ ret.done
    /\ Len(call.stream) = 5
    /\ call.stream[1] = 0
    /\ call.stream[2] # 0
    /\ call.stream[3] = 0
    /\ call.stream[4] # 0

\* C13: in every state of ConfidenceIntervalVisualizer, a second
\* simulateConfidenceIntervals with timers of the first still pending included,
\* covered <= total, samples.length <= total and the percentage of
\* getCoverageStats lies in [0, 100].
CoverageWithinTotal ==
    /\ ci.coverageStats.covered <= ci.coverageStats.total
    /\ Len(ci.samples) <= ci.coverageStats.total
    /\ Ge(getCoverageStats(ci).percentage, Num(0))
    /\ Le(getCoverageStats(ci).percentage, FromInt(100))

\* C14: after clear() the visualizer stays empty until the next
\* simulateConfidenceIntervals: no samples, no interval mesh in the group and no
\* covered interval in getCoverageStats, timers pending at the clear or not.
EmptyAfterClear ==
    run.op = "clear"
        => /\ ci.samples = <<>>
           /\ ci.group.meshes = 0
           /\ getCoverageStats(ci).covered = 0

-----------------------------------------------------------------------------
(* The claims about the parameter-estimation visualizer.                   *)

\* C16: in every state of ParameterEstimationVisualizer the number of samples
\* kept is at most the size the most recent generateSamples or animateSampling
\* asked for, and is 0 after clear() until the next such call, also when one of
\* them is called while an earlier animateSampling is still running.
SamplesWithinRequest ==
    /\ run.op = "sample" => Len(pe.samples) <= run.asked
    /\ run.op = "clear" => Len(pe.samples) = 0

\* the animation has all its samples, has completed once and requests no frame
AnimationStopped ==
    /\ Len(pe.samples) = call.size
    /\ local.completions = 1
    /\ frames = <<>>

\* C15: animateSampling(params, onComplete) with size >= 1, its frames delivered
\* and nothing else acting on the visualizer.  A run of animate() adds at most
\* ceil(size / 60) samples and, until the completion, at least one, and a frame
\* is requested as long as the animation has not stopped: so the samples reach
\* exactly size, within 60 runs.  At that point, and once only, the estimation
\* markers are updated and onComplete is invoked (the panel writes the
\* statistics).  One frame is delivered after that, and no frame is requested
\* any more.
AnimationCompletes ==
    local.pc \in {"running", "stopped"}
        => /\ local.added <= CeilDiv(call.size, FramesPerRun)
           /\ Len(pe.samples) <= call.size
           /\ local.completions <= 1
           /\ local.completions = 1 <=> Len(pe.samples) = call.size
           /\ local.completions = 0 => local.added >= 1
           /\ local.completions = 0 => local.runs <= FramesPerRun - 1
           /\ local.completions = 1
                 => /\ pe.estimationMarkers.set
                    /\ pe.estimationMarkers.mean = calculateMean(pe.samples)
                    /\ display.kind = "estimation"
           /\ local.idle <= 1
           /\ local.pc = "running" => Len(frames) = 1 /\ local.idle = 0
           /\ local.pc = "stopped" => frames = <<>> /\ local.idle = 1 /\ AnimationStopped

\* an animation of 121 samples, three to a frame, has stopped
AnimationCompletesReached ==
    /\ call.fn = "animateSampling"
    /\ call.size = 2 * FramesPerRun + 1
    /\ local.pc = "stopped"
    /\ local.idle = 1
    /\ AnimationStopped

=============================================================================
